---- MODULE Spec2Model ----
(***************************************************************************)
(* Model of notebooks/max-entropy.ipynb: the class MaxEntropyDice (affine  *)
(* projector onto {x : A x = b} built from an SVD kernel basis and a       *)
(* least-squares particular solution) and the projected gradient loop.     *)
(*                                                                         *)
(* Tensor entries are modelled as exact rationals <<num, den>> in lowest   *)
(* terms with den > 0, extended with the IEEE value NaN (<<0, 0>>), which  *)
(* every arithmetic operation propagates (0 * NaN = NaN).  Rounding is not *)
(* modelled: equalities below are the exact-arithmetic statements that the *)
(* floating-point program satisfies up to rounding.                        *)
(*                                                                         *)
(* torch.log is an external transcendental function.  It is modelled by    *)
(* the properties of log the program relies on: log(1) = 0, sign(log x) =  *)
(* sign(x - 1), strictly increasing (so equal inputs give equal outputs),  *)
(* NaN for negative or NaN input, and a NaN autograd gradient at 0.  Each  *)
(* step picks any assignment of grid values with these properties.         *)
(***************************************************************************)
EXTENDS Integers, Sequences, FiniteSets

VARIABLES num_faces, mean_constraint, lr, num_iters, P, v, p, i, pc,
          x, y1, y2, probe

vars == <<num_faces, mean_constraint, lr, num_iters, P, v, p, i, pc,
          x, y1, y2, probe>>

(* ---------------- bounds ---------------- *)
MaxN == 4
MaxIter == 3

(* ---------------- extended rational arithmetic ---------------- *)
NaN == <<0, 0>>
Zero == <<0, 1>>
One == <<1, 1>>

IsNaN(a) == a[2] = 0

Abs(k) == IF k < 0 THEN -k ELSE k

RECURSIVE GCD(_, _)
GCD(a, b) == IF b = 0 THEN a ELSE GCD(b, a % b)

Norm(n, d) ==
    IF d = 0 THEN NaN
    ELSE LET g == GCD(Abs(n), Abs(d))
             s == IF d < 0 THEN -1 ELSE 1
         IN  <<(s * n) \div g, (s * d) \div g>>

RAdd(a, b) == IF IsNaN(a) \/ IsNaN(b) THEN NaN
              ELSE LET g == GCD(a[2], b[2])
                   IN  Norm(a[1] * (b[2] \div g) + b[1] * (a[2] \div g),
                            a[2] * (b[2] \div g))

RNeg(a) == IF IsNaN(a) THEN NaN ELSE <<-a[1], a[2]>>

RSub(a, b) == RAdd(a, RNeg(b))

RMul(a, b) == IF IsNaN(a) \/ IsNaN(b) THEN NaN
              ELSE LET g1 == GCD(Abs(a[1]), b[2])
                       g2 == GCD(Abs(b[1]), a[2])
                   IN  Norm((a[1] \div g1) * (b[1] \div g2),
                            (a[2] \div g2) * (b[2] \div g1))

RInv(a) == IF IsNaN(a) THEN NaN ELSE Norm(a[2], a[1])

RDiv(a, b) == RMul(a, RInv(b))

REq(a, b) == ~IsNaN(a) /\ ~IsNaN(b) /\ a = b

RLt(a, b) == ~IsNaN(a) /\ ~IsNaN(b) /\ RSub(a, b)[1] < 0

(* ---------------- vectors and matrices ---------------- *)
RECURSIVE SumTo(_, _)
SumTo(f, n) == IF n = 0 THEN Zero ELSE RAdd(SumTo(f, n - 1), f[n])

Dot(a, b) == SumTo([j \in 1..Len(a) |-> RMul(a[j], b[j])], Len(a))

VAdd(a, b) == [j \in 1..Len(a) |-> RAdd(a[j], b[j])]

VSub(a, b) == [j \in 1..Len(a) |-> RSub(a[j], b[j])]

VScale(c, a) == [j \in 1..Len(a) |-> RMul(c, a[j])]

MatVec(M, a) == [r \in 1..Len(M) |-> Dot(M[r], a)]

Column(M, c) == [r \in 1..Len(M) |-> M[r][c]]

MatMul(M, Q) == [r \in 1..Len(M) |->
                   [c \in 1..Len(Q[1]) |-> Dot(M[r], Column(Q, c))]]

Ones(n) == [j \in 1..n |-> One]

AllFinite(a) == \A j \in 1..Len(a) : ~IsNaN(a[j])

(* ---------------- the constraint system ---------------- *)
ConstraintMatrix(n) == << Ones(n), [j \in 1..n |-> <<j, 1>>] >>

ConstraintRhs(mean) == <<One, mean>>

(* ---------------- torch.linalg.svd: the matrix V ---------------- *)
(* Column c of V is kept as an unnormalised direction w; the unit column *)
(* is w / sqrt(w . w), so products of two entries of one column are      *)
(* rational.  The leading columns span the row space of A, the others    *)
(* its kernel.                                                           *)
UnitVec(n, k) == [j \in 1..n |-> IF j = k THEN One ELSE Zero]

RECURSIVE Orthogonalize(_, _)
Orthogonalize(w, basis) ==
    IF basis = <<>> THEN w
    ELSE LET u == Head(basis)
         IN  Orthogonalize(VSub(w, VScale(RDiv(Dot(w, u), Dot(u, u)), u)),
                           Tail(basis))

RECURSIVE GramSchmidt(_, _)
GramSchmidt(cands, basis) ==
    IF cands = <<>> THEN basis
    ELSE LET w == Orthogonalize(Head(cands), basis)
         IN  IF \A j \in 1..Len(w) : w[j] = Zero
             THEN GramSchmidt(Tail(cands), basis)
             ELSE GramSchmidt(Tail(cands), Append(basis, w))

SvdV(A, n) == GramSchmidt(A \o [k \in 1..n |-> UnitVec(n, k)], <<>>)

Min(a, b) == IF a < b THEN a ELSE b

LenS(A, n) == Min(Len(A), n)

\* slice starting one column early: K = V[:, len(S)-1:]
KernelBasis_offByOne(A, n) == SubSeq(SvdV(A, n), LenS(A, n), n)

KernelBasis(A, n) == SubSeq(SvdV(A, n), LenS(A, n) + 1, n)

KernelProjector(A, n) ==
    LET K == KernelBasis(A, n)
        nrm == [c \in 1..Len(K) |-> Dot(K[c], K[c])]
    IN  [r \in 1..n |-> [c \in 1..n |->
           SumTo([k \in 1..Len(K) |->
                    RDiv(RMul(K[k][r], K[k][c]), nrm[k])], Len(K))]]

(* ---------------- torch.linalg.lstsq ---------------- *)
\* A^T b taken for the solution, the Gram matrix never inverted
Lstsq_noGram(A, b, n) ==
    IF n >= Len(A)
    THEN VAdd(VScale(b[1], A[1]), VScale(b[2], A[2]))
    ELSE << Dot(Column(A, 1), b) >>

Lstsq(A, b, n) ==
    IF n >= Len(A)
    THEN LET g11 == Dot(A[1], A[1])
             g12 == Dot(A[1], A[2])
             g22 == Dot(A[2], A[2])
             det == RSub(RMul(g11, g22), RMul(g12, g12))
             w1 == RDiv(RSub(RMul(g22, b[1]), RMul(g12, b[2])), det)
             w2 == RDiv(RSub(RMul(g11, b[2]), RMul(g12, b[1])), det)
         IN  VAdd(VScale(w1, A[1]), VScale(w2, A[2]))
    ELSE LET col == Column(A, 1)
         IN  << RDiv(Dot(col, b), Dot(col, col)) >>

(* ---------------- the projector closure ---------------- *)
\* sign slip: v - P (x - v)
constraint_projector_sign(PP, vv, xx) == VSub(vv, MatVec(PP, VSub(xx, vv)))

\* the particular solution left out: P (x - v)
constraint_projector_linear(PP, vv, xx) == MatVec(PP, VSub(xx, vv))

constraint_projector(PP, vv, xx) == VAdd(vv, MatVec(PP, VSub(xx, vv)))

(* ---------------- torch.log and the autograd gradient ---------------- *)
NegLogs == { <<-4, 1>>, <<-3, 1>>, <<-2, 1>>, <<-1, 1>>, <<-1, 2>> }

PosLogs == { <<1, 2>>, <<1, 1>>, <<2, 1>>, <<3, 1>>, <<4, 1>> }

BelowOne(q) == { q[j] : j \in { k \in 1..Len(q) : RLt(Zero, q[k]) /\ RLt(q[k], One) } }

AboveOne(q) == { q[j] : j \in { k \in 1..Len(q) : RLt(One, q[k]) } }

LogTables(q) ==
    { t \in (SUBSET NegLogs) \X (SUBSET PosLogs) :
        /\ Cardinality(t[1]) = Cardinality(BelowOne(q))
        /\ Cardinality(t[2]) = Cardinality(AboveOne(q)) }

Ranked(S, r) == CHOOSE e \in S : Cardinality({ f \in S : RLt(f, e) }) = r

Log(a, q, t) ==
    IF IsNaN(a) \/ RLt(a, Zero) THEN NaN
    ELSE IF a = One THEN Zero
    ELSE IF RLt(a, One)
         THEN Ranked(t[1], Cardinality({ f \in BelowOne(q) : RLt(f, a) }))
         ELSE Ranked(t[2], Cardinality({ f \in AboveOne(q) : RLt(f, a) }))

\* log of a clamped argument: max(p, eps), so the gradient is always finite
LossGrad_clamped(a, q, t) ==
    IF IsNaN(a) \/ ~RLt(Zero, a) THEN <<-3, 1>>
    ELSE RAdd(Log(a, q, t), One)

\* d/dp (p * log p) = log p + p * (1 / p); at p = 0 the product 0 * inf is NaN
LossGrad(a, q, t) ==
    IF a = Zero THEN NaN ELSE RAdd(Log(a, q, t), One)

\* optimizer.step(): plain SGD, p <- p - lr * grad
SgdStep(q, eta, t) ==
    [j \in 1..Len(q) |-> RSub(q[j], RMul(eta, LossGrad(q[j], q, t)))]

\* the projected value is computed but never copied back into p
enforce_constraint_skip(PP, vv, q) == q

enforce_constraint(PP, vv, q) == constraint_projector(PP, vv, q)

(* ---------------- configurations ---------------- *)
Means == { Norm(k, 2) : k \in 1..(2 * MaxN + 1) }

LearningRates == { <<1, 1000>>, <<1, 2>> }

Inputs == { <<-1, 1>>, Zero, <<3, 2>> }

(* ---------------- the optimizer ---------------- *)
Construct(n, m) ==
    /\ num_faces = n
    /\ mean_constraint = m
    /\ P = KernelProjector(ConstraintMatrix(n), n)
    /\ v = Lstsq(ConstraintMatrix(n), ConstraintRhs(m), n)
    /\ p = Ones(n)

Init ==
    /\ \E n \in 1..MaxN, m \in Means : Construct(n, m)
    /\ lr \in LearningRates
    /\ num_iters \in 1..MaxIter
    /\ i = 0
    /\ pc = "Initialized"
    /\ x = <<>> /\ y1 = <<>> /\ y2 = <<>> /\ probe = "none"

Step ==
    /\ pc = "Initialized"
    /\ i < num_iters
    /\ \E t \in LogTables(p) :
         p' = enforce_constraint(P, v, SgdStep(p, lr, t))
    /\ i' = i + 1
    /\ UNCHANGED <<num_faces, mean_constraint, lr, num_iters, P, v, pc,
                   x, y1, y2, probe>>

\* loop left as soon as one iteration is done
LoopExit_early ==
    /\ pc = "Initialized"
    /\ i >= 1
    /\ pc' = "Exhausted"
    /\ UNCHANGED <<num_faces, mean_constraint, lr, num_iters, P, v, p, i,
                   x, y1, y2, probe>>

LoopExit ==
    /\ pc = "Initialized"
    /\ i = num_iters
    /\ pc' = "Exhausted"
    /\ UNCHANGED <<num_faces, mean_constraint, lr, num_iters, P, v, p, i,
                   x, y1, y2, probe>>

Next == Step \/ LoopExit

Spec == Init /\ [][Next]_vars

(* ---------------- the projector as a pure function ---------------- *)
InitProject ==
    /\ \E n \in 1..MaxN, m \in Means : Construct(n, m)
    /\ lr = <<1, 1000>>
    /\ num_iters = 1
    /\ i = 0
    /\ pc = "Initialized"
    /\ x \in [1..num_faces -> Inputs]
    /\ y1 = <<>> /\ y2 = <<>> /\ probe = "input"

ProjectOnce ==
    /\ probe = "input"
    /\ y1' = constraint_projector(P, v, x)
    /\ probe' = "once"
    /\ UNCHANGED <<num_faces, mean_constraint, lr, num_iters, P, v, p, i, pc,
                   x, y2>>

ProjectTwice ==
    /\ probe = "once"
    /\ y2' = constraint_projector(P, v, y1)
    /\ probe' = "twice"
    /\ UNCHANGED <<num_faces, mean_constraint, lr, num_iters, P, v, p, i, pc,
                   x, y1>>

NextProject == ProjectOnce \/ ProjectTwice

SpecProject == InitProject /\ [][NextProject]_vars

(* ---------------- vocabulary of the properties ---------------- *)
VEq(a, b) == Len(a) = Len(b) /\ \A j \in 1..Len(a) : REq(a[j], b[j])

MEq(M, Q) == Len(M) = Len(Q) /\ \A r \in 1..Len(M) : VEq(M[r], Q[r])

Transpose(M) == [c \in 1..Len(M[1]) |-> Column(M, c)]

ZeroMatrix(m, n) == [r \in 1..m |-> [c \in 1..n |-> Zero]]

Uniform(n) == [j \in 1..n |-> Norm(1, n)]

A_ == ConstraintMatrix(num_faces)

b_ == ConstraintRhs(mean_constraint)

Feasible(q) == VEq(MatVec(A_, q), b_)

FullRowRank ==
    RSub(RMul(Dot(A_[1], A_[1]), Dot(A_[2], A_[2])),
         RMul(Dot(A_[1], A_[2]), Dot(A_[1], A_[2]))) # Zero

Consistent == VEq(MatVec(A_, Lstsq(A_, b_, num_faces)), b_)

ValidSystem == FullRowRank /\ Consistent

Degenerate(q) == \E j \in 1..Len(q) : IsNaN(q[j]) \/ ~RLt(Zero, q[j])

Midpoint == mean_constraint = Norm(num_faces + 1, 2)

(* ---------------- C1 ---------------- *)
\* C1: for N >= 2 and every real input x, A * project(x) = b: the entries
\* of project(x) sum to 1 and their weighted sum with weights 1..N is the
\* target mean.
C1_ProjectSatisfiesConstraints ==
    (probe \in {"once", "twice"} /\ num_faces >= 2) => Feasible(y1)

C1_Witness ==
    /\ probe = "once" /\ num_faces = 3
    /\ ~Feasible(x) /\ Feasible(y1)

(* ---------------- C2 ---------------- *)
\* C2: for every valid constraint system (full row rank, consistent) and
\* every input x, project(project(x)) = project(x).
C2_ProjectIdempotent ==
    (probe = "twice" /\ ValidSystem) => VEq(y2, y1)

C2_Witness ==
    /\ probe = "twice" /\ ValidSystem /\ num_faces = 3
    /\ ~VEq(y1, x) /\ ~VEq(y1, v) /\ VEq(y2, y1)

(* ---------------- C3 ---------------- *)
\* C3: for N >= 2 the kernel projection matrix P = K K^T is symmetric,
\* idempotent (P P = P) and satisfies A P = 0.
C3_KernelProjectorInvariant ==
    num_faces >= 2 =>
        /\ MEq(P, Transpose(P))
        /\ MEq(MatMul(P, P), P)
        /\ MEq(MatMul(A_, P), ZeroMatrix(2, num_faces))

C3_Witness ==
    /\ num_faces = 4
    /\ ~MEq(P, ZeroMatrix(4, 4))
    /\ MEq(MatMul(P, P), P)

(* ---------------- C4 ---------------- *)
\* C4: a constraint system of deficient row rank or with inconsistent
\* equations fails at construction: no optimizer in state Initialized or
\* Exhausted exists for it, so no projector or probability vector is exposed.
C4_InvalidSystemRejected ==
    ~ValidSystem => pc \notin {"Initialized", "Exhausted"}

(* ---------------- C5 ---------------- *)
\* C5 (as stated): with N = 2 and target mean 1.5 every optimization step
\* leaves the probability vector as it was.
C5_EveryStepNoOp ==
    [][(num_faces = 2 /\ mean_constraint = <<3, 2>> /\ i' = i + 1)
         => p' = p]_vars

\* C5 (amended): with N = 2 and target mean 1.5, P is the 2x2 zero matrix
\* and project(x) = v for every real input x; the first step moves p from
\* (1, 1) to v, p = v at every later iteration boundary and every step after
\* the first leaves p as it was.
C5_ConstantProjector ==
    (num_faces = 2 /\ mean_constraint = <<3, 2>>) =>
        /\ MEq(P, ZeroMatrix(2, 2))
        /\ \A xx \in [1..2 -> Inputs] : VEq(constraint_projector(P, v, xx), v)
        /\ i = 0 => (VEq(p, Ones(2)) /\ ~VEq(p, v))
        /\ i >= 1 => VEq(p, v)

C5_Witness ==
    /\ num_faces = 2 /\ mean_constraint = <<3, 2>>
    /\ i = 2 /\ pc = "Exhausted" /\ VEq(p, v)

(* ---------------- C6 ---------------- *)
\* C6: when the target mean is (N + 1) / 2 and N >= 2, a run of at least one
\* iteration from the all-ones vector returns the uniform distribution,
\* every entry 1/N, whatever the learning rate and the iteration count.
C6_MidpointGivesUniform ==
    (Midpoint /\ num_faces >= 2 /\ pc = "Exhausted")
        => VEq(p, Uniform(num_faces))

C6_Witness ==
    /\ Midpoint /\ num_faces = 3 /\ pc = "Exhausted" /\ i = 2
    /\ VEq(p, Uniform(3))

(* ---------------- C8 ---------------- *)
\* C8: the optimizer is either Initialized or in the terminal state; from
\* Initialized it performs exactly num_iters iterations, one at a time and
\* whatever the change of p, then becomes terminal, and a terminal optimizer
\* performs no step.
C8_LinearRun ==
    /\ [](/\ pc \in {"Initialized", "Exhausted"}
          /\ i \in 0..num_iters
          /\ pc = "Exhausted" => i = num_iters)
    /\ [][/\ pc = "Initialized"
          /\ IF i < num_iters
             THEN i' = i + 1 /\ pc' = "Initialized"
             ELSE i' = i /\ pc' = "Exhausted" /\ p' = p]_vars

C8_Witness ==
    pc = "Exhausted" /\ i = 2 /\ num_iters = 2

(* ---------------- C9 ---------------- *)
\* C9: for N >= 2, at every iteration boundary after at least one completed
\* iteration the probability vector satisfies both linear constraints (sum 1,
\* weighted sum the target mean), and the initial all-ones vector does not.
C9_FeasibleAfterEveryIteration ==
    num_faces >= 2 =>
        /\ i >= 1 => Feasible(p)
        /\ i = 0 => ~Feasible(p)

(* ---------------- C10 ---------------- *)
\* C10: a step started with a non-positive or non-finite entry of p raises
\* nothing and clamps nothing: the iteration is counted, the run goes on and
\* p then holds a non-finite entry; a non-finite entry at one iteration
\* boundary means a non-finite entry at every later one and in the result,
\* and the run still completes all its iterations.
C10_DegeneracyUnhandled ==
    /\ [][/\ (pc = "Initialized" /\ i < num_iters /\ Degenerate(p))
             => (i' = i + 1 /\ pc' = "Initialized" /\ ~AllFinite(p'))
          /\ ~AllFinite(p) => ~AllFinite(p')]_vars
    /\ [](pc = "Exhausted" => i = num_iters)

C10_Witness ==
    /\ pc = "Exhausted" /\ i = num_iters /\ i >= 3
    /\ num_faces >= 3 /\ ~AllFinite(p)

====
